---------------------------- MODULE Spec2Model ----------------------------
(* A model of the CorpusForge batch pipeline (Sidur-Mk1): the pipeline      *)
(* manager's run (pipeline/manager.py), the cleaning stage                  *)
(* (pipeline/cleaning.py), tokenizer training and chunking                  *)
(* (pipeline/tokenization.py), augmentation (pipeline/augmentation.py) and  *)
(* the exporter (pipeline/exporter.py).                                     *)
(*                                                                          *)
(* A text is a sequence of atoms.  An atom stands for a piece of a Python   *)
(* string that the code's string functions treat as a unit:                 *)
(*   "w"     a word of letters that is not profane                          *)
(*   "damn"  a word of the PROFANE list                                     *)
(*   " "     one whitespace character                                       *)
(*   "&"     the character '&'                                              *)
(*   "amp;"  the four characters 'amp;' ("&" followed by "amp;" is the      *)
(*           HTML entity of '&')                                            *)
(*   "<b>"   an HTML tag                                                    *)
EXTENDS Integers, Sequences, FiniteSets, TLC

\* ------------------------------------------------------------------ bounds
\* longest text drawn as an input of the cleaning stage
MaxLen == 3
\* most documents in an input of the cleaning stage
MaxDocs == 2
\* most atoms in all the documents of an input of the cleaning stage
MaxChars == 3
\* most documents in an input of deduplicate_documents
MaxDedupDocs == 3
\* most documents the importer returns to a run of the pipeline
MaxImport == 2
\* most documents in an input of tokenize_and_chunk
MaxChunkDocs == 2
\* most tokens of a document given to tokenize_and_chunk
MaxTokens == 3
\* largest chunk_size given to tokenize_and_chunk
MaxChunkSize == 3
\* most documents given to export_all
MaxExportDocs == 2
\* most characters of a text given to _watermark_text beyond the 64 that
\* take a marker
MaxTail == 2
\* largest step between the digits of a prefix given to _watermark_text
MaxDigitStep == 3
\* most documents given to augment_documents, and most sentences of one
MaxAugmentDocs == 2
MaxSentences == 3

\* ------------------------------------------------------------------- texts
None == "None"

Atoms == {"w", "damn", " ", "&", "amp;", "<b>"}

\* the atoms str.strip, str.split and \s match
IsSpace(a) == a = " "

\* the atoms whose first character is matched by \w
StartsWord(a) == a \in {"w", "damn", "amp;"}

\* the atoms whose last character is matched by \w
EndsWord(a) == a \in {"w", "damn"}

RECURSIVE SeqsUpTo(_, _)
\* the sequences over S of length at most n
SeqsUpTo(S, n) ==
    IF n = 0 THEN {<<>>}
    ELSE LET shorter == SeqsUpTo(S, n - 1)
         IN  shorter \cup {Append(s, x) : s \in {t \in shorter : Len(t) = n - 1}, x \in S}

RECURSIVE LStrip(_)
LStrip(t) == IF t # <<>> /\ IsSpace(Head(t)) THEN LStrip(Tail(t)) ELSE t

RECURSIVE RStrip(_)
RStrip(t) ==
    IF t # <<>> /\ IsSpace(t[Len(t)]) THEN RStrip(SubSeq(t, 1, Len(t) - 1)) ELSE t

\* str.strip()
Strip(t) == RStrip(LStrip(t))

RECURSIVE unescape(_)
\* html.unescape: one left-to-right pass that replaces every entity by the
\* character it names; the characters it produces are not scanned again
unescape(t) ==
    IF t = <<>> THEN <<>>
    ELSE IF Len(t) >= 2 /\ t[1] = "&" /\ t[2] = "amp;"
         THEN <<"&">> \o unescape(SubSeq(t, 3, Len(t)))
         ELSE <<Head(t)>> \o unescape(Tail(t))

\* normalize_text: every atom is in NFKC form and holds no carriage return,
\* so the first two steps leave a text of atoms as it is
normalize_text(text) == Strip(unescape(text))

RECURSIVE SubTags(_)
\* HTML_TAG_RE.sub(" ", text); no atom holds an e-mail address or a URL
SubTags(t) ==
    IF t = <<>> THEN <<>>
    ELSE <<IF Head(t) = "<b>" THEN " " ELSE Head(t)>> \o SubTags(Tail(t))

RECURSIVE CollapseSpaces(_)
\* re.sub(r"\s+", " ", text)
CollapseSpaces(t) ==
    IF t = <<>> THEN <<>>
    ELSE IF Len(t) >= 2 /\ IsSpace(t[1]) /\ IsSpace(t[2])
         THEN CollapseSpaces(Tail(t))
         ELSE <<Head(t)>> \o CollapseSpaces(Tail(t))

regex_clean(text) == Strip(CollapseSpaces(SubTags(text)))

\* the places of text where a token of re.findall(r"\w+", ...) is a word of
\* PROFANE: the atom "damn" with no word character on either side
ProfaneAt(text) ==
    {i \in 1..Len(text) :
        /\ text[i] = "damn"
        /\ (i > 1 => ~EndsWord(text[i - 1]))
        /\ (i < Len(text) => ~StartsWord(text[i + 1]))}

\* the None that a function returning Optional[str] gives: a sequence that no
\* text of atoms equals
NoText == <<None>>

\* remove_profanity: None for a text with a profane token, else the text
remove_profanity(text) == IF ProfaneAt(text) # {} THEN NoText ELSE text

RECURSIVE Split(_)
\* str.split(): the maximal runs of atoms that are not whitespace
Split(t) ==
    LET s == LStrip(t)
        RECURSIVE WordLen(_)
        WordLen(u) == IF u = <<>> \/ IsSpace(Head(u)) THEN 0 ELSE 1 + WordLen(Tail(u))
    IN  IF s = <<>> THEN <<>>
        ELSE <<SubSeq(s, 1, WordLen(s))>> \o Split(SubSeq(s, WordLen(s) + 1, Len(s)))

Range(s) == {s[i] : i \in 1..Len(s)}

Document(text, language, metadata) ==
    [text |-> text, language |-> language, metadata |-> metadata]


VARIABLES
    \* the similarity index's answer (datasketch MinHashLSH): the pairs of
    \* different signatures that share a bucket
    lsh_collisions,
    \* deduplicate_documents, one loop iteration at a time
    dd_documents, dd_minhashes, dd_lsh, dd_kept, dd_i, dd_pc,
    \* clean_documents applied to an input and again to its own output
    cl_documents, cl_config, cl_once, cl_twice, cl_pc,
    \* PipelineManager: the configuration, the cancel flag and the place of
    \* run() in its code
    config, cancel_event, pc,
    \* the lexical resource of augmentation.py (FALSE: the import failed)
    wn,
    \* run()'s locals: docs, chunks, sp_model, stats, and the value it returned
    docs, chunks, sp_model, stats, result,
    \* train_or_load_sp_model's current_vs
    current_vs,
    \* the observer: the calls of on_progress, of on_preview and of a metrics
    \* callback, in order, and whether a call has thrown
    progress, previews, metrics, observer_threw,
    \* the files of the output directory, as they were when the run began and
    \* as they are, and the files of a tokenizer directory outside it
    output_dir0, output_dir, sp_dir,
    \* the rows of the metadata store's datasets table
    datasets,
    \* history: the number of documents import_documents returned, and the
    \* stage functions run() has called, in order
    imported, called

VARIABLES
    \* tokenize_and_chunk, one document at a time: its arguments, its list of
    \* chunks, the number of documents done, and (history) the length of the
    \* list after each document
    tk_documents, tk_chunk_size, tk_chunks, tk_idx, tk_bounds, tk_pc,
    \* export_all: its arguments, the directory as it is, the stats it returned
    ex_args, ex_dir, ex_stats, ex_pc,
    \* _watermark_text: the characters of its text, its hex digits, its result
    wm_text, wm_hex, wm_out, wm_pc,
    \* train_or_load_sp_model: the directory that holds model_dir ("spm"),
    \* vocab_size and then current_vs, and (history) the size and the
    \* trainer's answer of the attempt before
    tr_dir, tr_vs, tr_prev, tr_last, tr_pc,
    \* augment_documents: its argument and its result
    au_documents, au_out, au_pc

chunk_vars == <<tk_documents, tk_chunk_size, tk_chunks, tk_idx, tk_bounds, tk_pc>>
export_vars == <<ex_args, ex_dir, ex_stats, ex_pc>>
watermark_vars == <<wm_text, wm_hex, wm_out, wm_pc>>
train_vars == <<tr_dir, tr_vs, tr_prev, tr_last, tr_pc>>
augment_vars == <<au_documents, au_out, au_pc>>
\* the variables of the functions that are run on their own
fn_vars == <<chunk_vars, export_vars, watermark_vars, train_vars, augment_vars>>

dedup_vars == <<dd_documents, dd_minhashes, dd_lsh, dd_kept, dd_i, dd_pc>>
clean_vars == <<cl_documents, cl_config, cl_once, cl_twice, cl_pc>>
mgr_vars == <<config, cancel_event, pc, wn, docs, chunks, sp_model, stats, result,
              current_vs, progress, previews, metrics, observer_threw,
              output_dir0, output_dir, sp_dir, datasets, imported, called>>
vars == <<lsh_collisions, dedup_vars, clean_vars, mgr_vars, fn_vars>>

\* ---------------------------------------------------------------- cleaning
\* model.predict and the label's code: a stand-in for the language
\* classifier, which answers from the words of a text and has no label for a
\* text without one
Predict(t) ==
    IF "w" \in Range(t) THEN "en"
    ELSE IF "amp;" \in Range(t) THEN "fr"
    ELSE None

\* detect_language without its first test: the classifier is asked whether or
\* not it was loaded
detect_language_unguarded(texts, model_path, fasttext) ==
    [i \in 1..Len(texts) |-> IF texts[i] = <<>> THEN None ELSE Predict(texts[i])]

\* detect_language; fasttext is FALSE when the library could not be imported
detect_language(texts, model_path, fasttext) ==
    IF model_path = None \/ ~fasttext
    THEN [i \in 1..Len(texts) |-> None]
    ELSE [i \in 1..Len(texts) |-> IF texts[i] = <<>> THEN None ELSE Predict(texts[i])]

\* MinHash over set(doc.text.split()): the signature is a function of the set
\* of distinct tokens, which stands for it
MinHash(text) == Range(Split(text))

\* two signatures share a bucket of the index
Collide(a, b) == a = b \/ {a, b} \in lsh_collisions

\* lsh.query(mh): the inserted keys whose signature shares a bucket with mh
LshQuery(minhashes, lsh, mh) == {k \in lsh : Collide(minhashes[k], mh)}

\* the second loop, had it inserted every signature, dropped ones included
DedupStepBuggy(documents, minhashes, st, i) ==
    LET dup == LshQuery(minhashes, st.lsh, minhashes[i])
    IN  IF dup # {} THEN [lsh |-> st.lsh \cup {i}, kept |-> st.kept]
        ELSE [lsh |-> st.lsh \cup {i}, kept |-> Append(st.kept, documents[i])]

\* one iteration of the second loop of deduplicate_documents, on key i
DedupStep(documents, minhashes, st, i) ==
    LET dup == LshQuery(minhashes, st.lsh, minhashes[i])
    IN  IF dup # {} THEN st
        ELSE [lsh |-> st.lsh \cup {i}, kept |-> Append(st.kept, documents[i])]

RECURSIVE DedupLoop(_, _, _, _)
DedupLoop(documents, minhashes, st, i) ==
    IF i > Len(documents) THEN st
    ELSE DedupLoop(documents, minhashes, DedupStep(documents, minhashes, st, i), i + 1)

deduplicate_documents(documents) ==
    LET minhashes == [i \in 1..Len(documents) |-> MinHash(documents[i].text)]
    IN  DedupLoop(documents, minhashes, [lsh |-> {}, kept |-> <<>>], 1).kept

\* the language gate with a whitelist that ends the test: a document whose
\* code is in the whitelist is kept without a look at the blacklist
PassesLanguageGateWhitelistFirst(lang, language_whitelist, language_blacklist) ==
    IF lang # None
    THEN IF language_whitelist # {}
         THEN lang \in language_whitelist
         ELSE ~(language_blacklist # {} /\ lang \in language_blacklist)
    ELSE TRUE

\* the language gate's test of one document
PassesLanguageGate(lang, language_whitelist, language_blacklist) ==
    IF lang # None
    THEN /\ ~(language_whitelist # {} /\ lang \notin language_whitelist)
         /\ ~(language_blacklist # {} /\ lang \in language_blacklist)
    ELSE TRUE

\* clean_documents up to the profanity filter: the texts of filtered_docs
filtered_docs(documents, c) ==
    LET normalized0 == [i \in 1..Len(documents) |-> normalize_text(documents[i].text)]
        normalized == IF c.enable_regex_clean
                      THEN [i \in 1..Len(normalized0) |-> regex_clean(normalized0[i])]
                      ELSE normalized0
        NonEmpty(t) == t # <<>>
        normalized_texts == SelectSeq(normalized, NonEmpty)
        NotProfane(t) == remove_profanity(t) # NoText
    IN  IF c.enable_profanity_filter
        THEN SelectSeq(normalized_texts, NotProfane)
        ELSE normalized_texts

clean_documents(documents, c) ==
    LET filtered == filtered_docs(documents, c)
        langs == IF c.enable_language_filter
                 THEN detect_language(filtered, c.fasttext_model_path, c.fasttext)
                 ELSE [i \in 1..Len(filtered) |-> None]
        tagged == [i \in 1..Len(filtered) |-> Document(filtered[i], langs[i], None)]
        Passes(d) == PassesLanguageGate(d.language, c.language_whitelist,
                                        c.language_blacklist)
        lang_docs == SelectSeq(tagged, Passes)
    IN  IF c.enable_deduplication THEN deduplicate_documents(lang_docs) ELSE lang_docs


\* ------------------------------------------------- deduplicate_documents
\* three texts of different token sets
DedupTexts == {<<"w">>, <<"damn">>, <<"amp;">>}

DedupInputs ==
    {[i \in 1..Len(ts) |-> Document(ts[i], None, None)] : ts \in SeqsUpTo(DedupTexts, MaxDedupDocs)}

\* every set of pairs of different signatures the index may report as similar
Collisions(texts) ==
    SUBSET ({{MinHash(a), MinHash(b)} : a \in texts, b \in texts}
            \ {{MinHash(a)} : a \in texts})

DedupIdle ==
    /\ dd_documents = <<>>
    /\ dd_minhashes = <<>>
    /\ dd_lsh = {}
    /\ dd_kept = <<>>
    /\ dd_i = 0
    /\ dd_pc = "idle"

\* the first loop: a signature per document
DedupSign ==
    /\ dd_pc = "sign"
    /\ dd_minhashes' = [i \in 1..Len(dd_documents) |-> MinHash(dd_documents[i].text)]
    /\ dd_i' = 1
    /\ dd_pc' = "query"
    /\ UNCHANGED <<dd_documents, dd_lsh, dd_kept, lsh_collisions, clean_vars, mgr_vars, fn_vars>>

\* one iteration of the second loop
DedupQuery ==
    /\ dd_pc = "query"
    /\ dd_i <= Len(dd_documents)
    /\ LET st == DedupStep(dd_documents, dd_minhashes, [lsh |-> dd_lsh, kept |-> dd_kept], dd_i)
       IN  /\ dd_lsh' = st.lsh
           /\ dd_kept' = st.kept
    /\ dd_i' = dd_i + 1
    /\ UNCHANGED <<dd_documents, dd_minhashes, dd_pc, lsh_collisions, clean_vars, mgr_vars, fn_vars>>

DedupReturn ==
    /\ dd_pc = "query"
    /\ dd_i > Len(dd_documents)
    /\ dd_pc' = "returned"
    /\ UNCHANGED <<dd_documents, dd_minhashes, dd_lsh, dd_kept, dd_i, lsh_collisions, clean_vars, mgr_vars, fn_vars>>

\* ---------------------------------------------------------- clean_documents
CleanConfigs ==
  {c \in
    [language_whitelist : {{}, {"en"}},
     language_blacklist : {{}, {"en"}},
     fasttext_model_path : {None, "lid.176.bin"},
     fasttext : BOOLEAN,
     enable_regex_clean : BOOLEAN,
     enable_profanity_filter : BOOLEAN,
     enable_language_filter : BOOLEAN,
     enable_deduplication : BOOLEAN] :
    c.fasttext_model_path = None => c.fasttext}

RECURSIVE TextLists(_, _)
\* the lists of at most k texts, none empty or longer than MaxLen, of at
\* most budget atoms together
TextLists(k, budget) ==
    {<<>>} \cup
    (IF k = 0 THEN {}
     ELSE UNION {{<<t>> \o rest : rest \in TextLists(k - 1, budget - Len(t))} :
                 t \in {u \in SeqsUpTo(Atoms, IF budget < MaxLen THEN budget ELSE MaxLen) : u # <<>>}})

CleanInputs ==
    {[i \in 1..Len(ts) |-> Document(ts[i], None, None)] : ts \in TextLists(MaxDocs, MaxChars)}

CleanIdle ==
    /\ cl_documents = <<>>
    /\ cl_config = CHOOSE c \in CleanConfigs : TRUE
    /\ cl_once = <<>>
    /\ cl_twice = <<>>
    /\ cl_pc = "idle"

\* the cleaning stage on the input
CleanOnce ==
    /\ cl_pc = "input"
    /\ cl_once' = clean_documents(cl_documents, cl_config)
    /\ cl_pc' = "once"
    /\ UNCHANGED <<cl_documents, cl_config, cl_twice, lsh_collisions, dedup_vars, mgr_vars, fn_vars>>

\* the cleaning stage on its own output
CleanTwice ==
    /\ cl_pc = "once"
    /\ cl_twice' = clean_documents(cl_once, cl_config)
    /\ cl_pc' = "twice"
    /\ UNCHANGED <<cl_documents, cl_config, cl_once, lsh_collisions, dedup_vars, mgr_vars, fn_vars>>

\* ------------------------------------------------------------ augmentation
Max(a, b) == IF a >= b THEN a ELSE b
Min(a, b) == IF a <= b THEN a ELSE b

RECURSIVE Join(_, _)
\* sep.join(parts)
Join(parts, sep) ==
    IF parts = <<>> THEN <<>>
    ELSE IF Len(parts) = 1 THEN parts[1]
    ELSE parts[1] \o sep \o Join(Tail(parts), sep)

\* the lemma names WordNet has for a word: a stand-in for the lexical
\* resource, which knows the word "w" under its own name and a two-word name
Lemmas(word) == IF word = <<"w">> THEN {<<"w">>, <<"w", " ", "w">>} ELSE {}

RECURSIVE SynonymChoices(_)
\* every list of words the loop of synonym_replacement can build: a word is
\* kept, or (random.random() < p) replaced by a lemma other than itself
SynonymChoices(words) ==
    IF words = <<>> THEN {<<>>}
    ELSE {<<w>> \o rest : w \in {Head(words)} \cup (Lemmas(Head(words)) \ {Head(words)}),
                          rest \in SynonymChoices(Tail(words))}

\* synonym_replacement: the documents it can return
synonym_replacement(doc) ==
    IF ~wn THEN {doc}
    ELSE {Document(Join(ws, <<" ">>), doc.language, doc.metadata) :
              ws \in SynonymChoices(Split(doc.text))}

RECURSIVE SentenceSplit(_)
\* text.split(". ")
SentenceSplit(t) ==
    LET cuts == {i \in 1..(Len(t) - 1) : t[i] = "." /\ t[i + 1] = " "}
    IN  IF cuts = {} THEN <<t>>
        ELSE LET i == CHOOSE c \in cuts : \A d \in cuts : c <= d
             IN  <<SubSeq(t, 1, i - 1)>> \o SentenceSplit(SubSeq(t, i + 2, Len(t)))

\* sentence_reorder: the documents it can return
sentence_reorder(doc) ==
    LET sentences == SentenceSplit(doc.text)
        n == Len(sentences)
        orders == IF n > 2
                  THEN {[i \in 1..n |-> sentences[q[i]]] : q \in Permutations(1..n)}
                  ELSE {sentences}
    IN  {Document(Join(o, <<".", " ">>), doc.language, doc.metadata) : o \in orders}

RECURSIVE augment_documents(_)
\* augment_documents: the lists it can return
augment_documents(documents) ==
    IF documents = <<>> THEN {<<>>}
    ELSE {<<d2>> \o rest :
              d2 \in UNION {sentence_reorder(d1) : d1 \in synonym_replacement(Head(documents))},
              rest \in augment_documents(Tail(documents))}

\* ------------------------------------------------------------ tokenization
\* vocab_size's default
DefaultVocabSize == 32000
\* the smallest vocabulary size of the backoff
MinVocabSize == 1000

\* what SentencePieceTrainer.Train can answer to a request: a model, an
\* error that names no size, or an error that names the largest size it
\* takes ("... value <= m")
TrainerResponsesFor(maxima) ==
    {[kind |-> "trained", max |-> 0], [kind |-> "error", max |-> 0]}
    \cup {[kind |-> "too_high", max |-> m] : m \in maxima}

\* the answers of the trainer in a run of the pipeline
TrainerResponses == TrainerResponsesFor({500})

\* the except branch: the size of the next attempt
NextVocabSize(vs, response) ==
    IF response.kind = "too_high"
    THEN Max(MinVocabSize, Min(vs - 1000, response.max))
    ELSE Max(MinVocabSize, (vs * 4) \div 5)

\* the pieces of the subword model: a stand-in for the trained model, which
\* has one piece for every atom
Pieces == <<"w", "damn", " ", "&", "amp;", "<b>", ".">>

\* sp.encode(text, out_type=int)
Encode(text) == [i \in 1..Len(text) |-> CHOOSE k \in 1..Len(Pieces) : Pieces[k] = text[i]]

\* sp.decode(ids)
Decode(ids) == [i \in 1..Len(ids) |-> Pieces[ids[i]]]

TokenizedChunk(tokens, text) == [tokens |-> tokens, text |-> text]

\* the inner loop, had it stopped before a window shorter than chunk_size
WindowsWithoutTail(ids, chunk_size) ==
    LET n == Len(ids) \div chunk_size
    IN  [k \in 1..n |->
            LET window == SubSeq(ids, (k - 1) * chunk_size + 1, k * chunk_size)
            IN  TokenizedChunk(window, Decode(window))]

\* the inner loop of tokenize_and_chunk: the windows of one document
Windows(ids, chunk_size) ==
    LET starts == {i \in 0..(Len(ids) - 1) : i % chunk_size = 0}
        n == Cardinality(starts)
    IN  [k \in 1..n |->
            LET window == SubSeq(ids, (k - 1) * chunk_size + 1,
                                 Min(k * chunk_size, Len(ids)))
            IN  TokenizedChunk(window, Decode(window))]

RECURSIVE tokenize_and_chunk(_, _)
tokenize_and_chunk(documents, chunk_size) ==
    IF documents = <<>> THEN <<>>
    ELSE Windows(Encode(Head(documents).text), chunk_size)
         \o tokenize_and_chunk(Tail(documents), chunk_size)

\* ------------------------------------------------------------------ export
ZERO_WIDTH_SPACE == "ZWSP"
ZERO_WIDTH_JOINER == "ZWJ"

\* the characters of an atom
CharsOf(a) ==
    CASE a = "damn" -> <<"d", "a", "m", "n">>
      [] a = "amp;" -> <<"a", "m", "p", ";">>
      [] a = "<b>" -> <<"<", "b", ">">>
      [] OTHER -> <<a>>

RECURSIVE Chars(_)
\* the characters of a text
Chars(text) == IF text = <<>> THEN <<>> ELSE CharsOf(Head(text)) \o Chars(Tail(text))

\* the characters the model's texts are written in
Alphabet == <<"w", "d", "a", "m", "n", " ", "&", "p", ";", "<", "b", ">", ".", "\n">>

CharCode(c) == CHOOSE k \in 1..Len(Alphabet) : Alphabet[k] = c

\* the number of hexadecimal digits of a SHA-256 digest
HexDigestLen == 64
\* the number of digits of the digest that make the watermark
WatermarkHexLen == 16

RECURSIVE WeightedSum(_, _, _)
WeightedSum(bytes, i, k) ==
    IF i > Len(bytes) THEN k
    ELSE (CharCode(bytes[i]) * (i + k) + WeightedSum(bytes, i + 1, k)) % 16

\* hashlib.sha256 and hexdigest(): a stand-in digest, a function of the bytes
\* it was fed and of nothing else (the digits are numbers 0..15)
Sha256Hex(bytes) == [k \in 1..HexDigestLen |-> WeightedSum(bytes, 1, k)]

RECURSIVE HashInput(_)
\* the bytes _compute_dataset_hash feeds the digest: every text, then b"\n"
HashInput(texts) ==
    IF texts = <<>> THEN <<>>
    ELSE Chars(Head(texts)) \o <<"\n">> \o HashInput(Tail(texts))

_compute_dataset_hash(texts) == Sha256Hex(HashInput(texts))

\* the bits of every digit, lowest bit first
BitstreamLowBitFirst(watermark_hex) ==
    [i \in 1..(4 * Len(watermark_hex)) |->
        LET digit == watermark_hex[((i - 1) \div 4) + 1]
            place == (i - 1) % 4
        IN  (digit \div (CASE place = 0 -> 1 [] place = 1 -> 2 [] place = 2 -> 4 [] OTHER -> 8)) % 2]

\* f"{int(ch, 16):04b}" for every digit
Bitstream(watermark_hex) ==
    [i \in 1..(4 * Len(watermark_hex)) |->
        LET digit == watermark_hex[((i - 1) \div 4) + 1]
            place == (i - 1) % 4
        IN  (digit \div (CASE place = 0 -> 8 [] place = 1 -> 4 [] place = 2 -> 2 [] OTHER -> 1)) % 2]

RECURSIVE Marked(_, _, _)
Marked(chars, bitstream, i) ==
    IF i > Len(chars) THEN <<>>
    ELSE (IF i <= Len(bitstream)
          THEN <<chars[i], IF bitstream[i] = 0 THEN ZERO_WIDTH_SPACE ELSE ZERO_WIDTH_JOINER>>
          ELSE <<chars[i]>>)
         \o Marked(chars, bitstream, i + 1)

\* _watermark_text, on the characters of a text
_watermark_text(chars, watermark_hex) == Marked(chars, Bitstream(watermark_hex), 1)

DatasetStats(num_documents, num_tokens, language_distribution, dataset_hash) ==
    [num_documents |-> num_documents, num_tokens |-> num_tokens,
     language_distribution |-> language_distribution, dataset_hash |-> dataset_hash]

RECURSIVE SumLen(_)
SumLen(cs) == IF cs = <<>> THEN 0 ELSE Len(Head(cs).tokens) + SumLen(Tail(cs))

\* a directory: the contents of its entries by name; "." is the directory
\* itself, so the empty function is a directory that does not exist
EmptyDir == <<>>
WriteFile(dir, name, content) == (name :> content) @@ dir
\* mkdir(parents=True, exist_ok=True)
Mkdir(dir, name) == IF name \in DOMAIN dir THEN dir ELSE WriteFile(dir, name, "dir")

\* line 49, had it joined each document's language to its text
DocumentTextsWithLanguage(documents) ==
    [i \in 1..Len(documents) |->
        documents[i].text \o (IF documents[i].language = None THEN <<>> ELSE <<"w">>)]

\* texts = [d.text for d in documents]
DocumentTexts(documents) == [i \in 1..Len(documents) |-> documents[i].text]

\* the parquet branch with an except clause that writes nothing
ParquetStepNoFallback(dir, df, parquet_ok) ==
    IF parquet_ok THEN WriteFile(dir, "dataset.parquet", df) ELSE dir

\* the parquet branch: df.to_parquet, and df.to_csv when it raises
ParquetStep(dir, df, parquet_ok) ==
    IF parquet_ok THEN WriteFile(dir, "dataset.parquet", df)
    ELSE WriteFile(dir, "dataset.parquet.csv", df)

\* export_all: the directory after it and the stats it returns.  parquet_ok
\* is FALSE when df.to_parquet raises
export_all(dir, documents, chunks_, formats, watermark_texts, ascii_safe_json, parquet_ok) ==
    LET texts == DocumentTexts(documents)
        dataset_hash == _compute_dataset_hash(texts)
        codes == {documents[i].language : i \in 1..Len(documents)} \ {None}
        languages == [l \in codes |->
                        Cardinality({i \in 1..Len(documents) : documents[i].language = l})]
        text_out(t) == IF watermark_texts
                       THEN _watermark_text(Chars(t), SubSeq(dataset_hash, 1, WatermarkHexLen))
                       ELSE Chars(t)
        jsonl == [i \in 1..Len(documents) |->
                    [id |-> i - 1, text |-> text_out(texts[i]),
                     language |-> documents[i].language,
                     length_chars |-> Len(Chars(texts[i])), ensure_ascii |-> ascii_safe_json]]
        txt == [i \in 1..Len(documents) |-> text_out(texts[i])]
        df == [i \in 1..Len(documents) |->
                 [text |-> text_out(texts[i]), language |-> documents[i].language]]
        stats_ == DatasetStats(Len(documents), SumLen(chunks_), languages, dataset_hash)
        d0 == Mkdir(dir, ".")
        d1 == IF "jsonl" \in formats THEN WriteFile(d0, "dataset.jsonl", jsonl) ELSE d0
        d2 == IF "txt" \in formats THEN WriteFile(d1, "dataset.txt", txt) ELSE d1
        d3 == IF "csv" \in formats THEN WriteFile(d2, "dataset.csv", df) ELSE d2
        d4 == IF "parquet" \in formats THEN ParquetStep(d3, df, parquet_ok) ELSE d3
        d5 == WriteFile(d4, "chunks.jsonl", chunks_)
        d6 == WriteFile(d5, "metadata.json", stats_)
    IN  [dir |-> d6, stats |-> stats_]

\* --------------------------------------------------------- PipelineManager
\* the documents the importer can return: at most MaxImport of these texts
ImportTexts == {<<"w">>, <<"damn">>}

ImportBatches ==
    {[i \in 1..Len(ts) |-> Document(ts[i], None, None)] : ts \in SeqsUpTo(ImportTexts, MaxImport)}

\* the configurations of a run: the command line's defaults, with or without
\* augmentation, a classifier, the observer callbacks and a tokenizer path
\* ("tok.model": a model file that exists; "tokdir": a directory to train in).
\* watermark_texts is not a field of the dataclass: it is the attribute a
\* caller sets on the configuration to ask for an export without watermark
\* (it matters only when a dataset file is asked for, and
\* sentencepiece_vocab_size only when a tokenizer may be trained)
PipelineConfigs ==
    {c \in [input_paths : {"inputs"},
            output_dir : {"out"},
            fasttext_model_path : {None, "lid.176.bin"},
            chunk_size : {2},
            export_formats : {{}, {"jsonl", "txt", "csv", "parquet"}},
            language_whitelist : {{}},
            language_blacklist : {{}},
            enable_augmentation : BOOLEAN,
            sentencepiece_model_path : {None, "tok.model", "tokdir"},
            sentencepiece_vocab_size : {8000, DefaultVocabSize},
            watermark_texts : BOOLEAN,
            enable_regex_clean : {TRUE},
            enable_profanity_filter : {TRUE},
            enable_language_filter : {TRUE},
            enable_deduplication : {TRUE},
            fasttext : {TRUE},
            on_progress : {None, "on_progress_cb"},
            on_preview : {None, "on_preview_cb"}] :
        /\ (c.on_progress = None) <=> (c.on_preview = None)
        /\ c.export_formats = {} => c.watermark_texts
        /\ c.sentencepiece_model_path = "tok.model"
              => c.sentencepiece_vocab_size = DefaultVocabSize}

\* an output directory an earlier run has trained its tokenizer in
TrainedDir ==
    WriteFile(Mkdir(Mkdir(EmptyDir, "."), "spm"), "spm/spm.model", "model")

\* no manager has been made
ManagerAtRest ==
    /\ config = CHOOSE c \in PipelineConfigs : TRUE
    /\ cancel_event = FALSE
    /\ pc = "idle"
    /\ docs = <<>>
    /\ chunks = <<>>
    /\ sp_model = None
    /\ stats = None
    /\ result = None
    /\ current_vs = 0
    /\ progress = <<>>
    /\ previews = <<>>
    /\ metrics = <<>>
    /\ observer_threw = FALSE
    /\ output_dir0 = EmptyDir
    /\ output_dir = EmptyDir
    /\ sp_dir = EmptyDir
    /\ datasets = <<>>
    /\ imported = -1
    /\ called = <<>>

ManagerIdle == ManagerAtRest /\ wn = FALSE

other_vars == <<lsh_collisions, dedup_vars, clean_vars, fn_vars>>

\* cancel(): any thread, while the manager is running
Cancel ==
    /\ pc \notin {"idle", "returned", "raised"}
    /\ cancel_event' = TRUE
    /\ UNCHANGED <<config, pc, wn, docs, chunks, sp_model, stats, result, current_vs,
                   progress, previews, metrics, observer_threw, output_dir0, output_dir,
                   sp_dir, datasets, imported, called, other_vars>>

\* _check_cancel, had it never seen the flag
_check_cancel_never == FALSE

\* _check_cancel: whether the flag is set
_check_cancel == cancel_event

\* the emitters without their try/except: the callback's exception leaves them
EmitEscapesBuggy(callback, throws) == callback # None /\ throws

\* whether an exception of the callback leaves _emit_progress or _emit_preview
EmitEscapes(callback, throws) == FALSE

\* _emit_progress: the calls of on_progress after it
_emit_progress(stage, value) ==
    IF config.on_progress # None THEN Append(progress, <<stage, value>>) ELSE progress

\* _emit_preview: the calls of on_preview after it
_emit_preview(stage, sample) ==
    IF config.on_preview # None THEN Append(previews, <<stage, sample>>) ELSE previews

\* [d.text[:400] for d in docs[:5]]
Sample(ds) == [i \in 1..Min(5, Len(ds)) |-> ds[i].text]

\* what run() returns when it stops for the flag, and for an empty import
CancelResult == FALSE
NoDocsResult == FALSE

\* return False at a stage boundary
ReturnFalse ==
    /\ pc' = "returned"
    /\ result' = CancelResult

\* a step of run() that calls on_progress once and nothing else; throws says
\* whether the callback throws
ProgressStep(at, stage, value, next, throws) ==
    /\ pc = at
    /\ progress' = _emit_progress(stage, value)
    /\ pc' = IF EmitEscapes(config.on_progress, throws) THEN "raised" ELSE next
    /\ UNCHANGED <<config, cancel_event, wn, docs, chunks, sp_model, stats, result,
                   current_vs, previews, metrics, output_dir0, output_dir, sp_dir,
                   datasets, imported, called, other_vars>>

\* a step that calls on_progress and then on_preview
ProgressPreviewStep(at, stage, next, throws, throws2) ==
    /\ pc = at
    /\ progress' = _emit_progress(stage, 1)
    /\ IF EmitEscapes(config.on_progress, throws)
       THEN pc' = "raised" /\ previews' = previews
       ELSE /\ previews' = _emit_preview(stage, Sample(docs))
            /\ pc' = IF EmitEscapes(config.on_preview, throws2) THEN "raised" ELSE next
    /\ UNCHANGED <<config, cancel_event, wn, docs, chunks, sp_model, stats, result,
                   current_vs, metrics, output_dir0, output_dir, sp_dir,
                   datasets, imported, called, other_vars>>

\* a stage boundary that only polls the flag
BoundaryStep(at, next) ==
    /\ pc = at
    /\ IF _check_cancel THEN ReturnFalse ELSE pc' = next /\ result' = result
    /\ UNCHANGED <<config, cancel_event, wn, docs, chunks, sp_model, stats, current_vs,
                   progress, previews, metrics, observer_threw, output_dir0, output_dir,
                   sp_dir, datasets, imported, called, other_vars>>

\* run(): the check before the first stage
BoundaryStart == BoundaryStep("start", "import_begin")

ImportBegin(throws) == ProgressStep("import_begin", "import", 0, "import_work", throws)

\* docs = import_documents(...)
ImportWork ==
    /\ pc = "import_work"
    /\ \E batch \in ImportBatches :
          /\ docs' = batch
          /\ imported' = Len(batch)
    /\ called' = Append(called, "import_documents")
    /\ pc' = "import_end"
    /\ UNCHANGED <<config, cancel_event, wn, chunks, sp_model, stats, result, current_vs,
                   progress, previews, metrics, observer_threw, output_dir0, output_dir,
                   sp_dir, datasets, other_vars>>

ImportEnd(throws, throws2) ==
    ProgressPreviewStep("import_end", "import", "import_check", throws, throws2)

\* the test of line 89, had it been left out
NoDocsNever(ds) == FALSE

\* if not docs
NoDocs(ds) == ds = <<>>

\* the check after Import, and the test for an empty import
BoundaryImport ==
    /\ pc = "import_check"
    /\ IF _check_cancel THEN ReturnFalse
       ELSE IF NoDocs(docs) THEN pc' = "returned" /\ result' = NoDocsResult
       ELSE pc' = "clean_begin" /\ result' = result
    /\ UNCHANGED <<config, cancel_event, wn, docs, chunks, sp_model, stats, current_vs,
                   progress, previews, metrics, observer_threw, output_dir0, output_dir,
                   sp_dir, datasets, imported, called, other_vars>>

CleanBegin(throws) == ProgressStep("clean_begin", "clean", 0, "clean_work", throws)

\* docs = clean_documents(docs, ...)
CleanWork ==
    /\ pc = "clean_work"
    /\ docs' = clean_documents(docs, config)
    /\ called' = Append(called, "clean_documents")
    /\ pc' = "clean_end"
    /\ UNCHANGED <<config, cancel_event, wn, chunks, sp_model, stats, result, current_vs,
                   progress, previews, metrics, observer_threw, output_dir0, output_dir,
                   sp_dir, datasets, imported, other_vars>>

CleanEnd(throws, throws2) ==
    ProgressPreviewStep("clean_end", "clean", "clean_check", throws, throws2)

\* the place after the Cleaning boundary, had enable_augmentation been ignored
AfterCleanAlwaysAugment == "augment_begin"

\* if self.config.enable_augmentation
AfterClean == IF config.enable_augmentation THEN "augment_begin" ELSE "tokenize_begin"

\* the Cleaning boundary, had it stopped the run on an empty document list
\* the way the Importing boundary does
BoundaryCleanStopsOnEmpty ==
    /\ pc = "clean_check"
    /\ IF _check_cancel \/ docs = <<>>
       THEN ReturnFalse
       ELSE pc' = AfterClean /\ result' = result
    /\ UNCHANGED <<config, cancel_event, wn, docs, chunks, sp_model, stats, current_vs,
                   progress, previews, metrics, observer_threw, output_dir0, output_dir,
                   sp_dir, datasets, imported, called, other_vars>>

BoundaryClean == BoundaryStep("clean_check", AfterClean)

AugmentBegin(throws) == ProgressStep("augment_begin", "augment", 0, "augment_work", throws)

\* docs = augment_documents(docs)
AugmentWork ==
    /\ pc = "augment_work"
    /\ docs' \in augment_documents(docs)
    /\ called' = Append(called, "augment_documents")
    /\ pc' = "augment_end"
    /\ UNCHANGED <<config, cancel_event, wn, chunks, sp_model, stats, result, current_vs,
                   progress, previews, metrics, observer_threw, output_dir0, output_dir,
                   sp_dir, datasets, imported, other_vars>>

AugmentEnd(throws) == ProgressStep("augment_end", "augment", 1, "augment_check", throws)

BoundaryAugment == BoundaryStep("augment_check", "tokenize_begin")

TokenizeBegin(throws) ==
    ProgressStep("tokenize_begin", "tokenize", 0, "tokenize_prepare", throws)

\* the start of train_or_load_sp_model in directory dir: the directory is
\* made, and without a model in it the training input is written
PrepareTraining(dir, sub, texts) ==
    LET made == Mkdir(Mkdir(dir, "."), sub)
    IN  IF (sub \o "/spm.model") \in DOMAIN made THEN made
        ELSE WriteFile(made, sub \o "/_train_input.txt", texts)

\* the tokenizer model is chosen: the configured file, or the model of the
\* training directory, which is trained when it is not there
TokenizePrepare ==
    /\ pc = "tokenize_prepare"
    /\ IF config.sentencepiece_model_path = "tok.model"
       THEN /\ sp_model' = "tok.model"
            /\ pc' = "tokenize_chunk"
            /\ UNCHANGED <<output_dir, sp_dir, current_vs, called>>
       ELSE LET texts == [i \in 1..Len(docs) |-> docs[i].text]
                inside == config.sentencepiece_model_path = None
                before == IF inside THEN output_dir ELSE sp_dir
                after == PrepareTraining(before, IF inside THEN "spm" ELSE "tokdir", texts)
                model == IF inside THEN "spm/spm.model" ELSE "tokdir/spm.model"
            IN  /\ output_dir' = IF inside THEN after ELSE output_dir
                /\ sp_dir' = IF inside THEN sp_dir ELSE after
                /\ called' = Append(called, "train_or_load_sp_model")
                /\ IF model \in DOMAIN before
                   THEN /\ sp_model' = model
                        /\ pc' = "tokenize_chunk"
                        /\ current_vs' = current_vs
                   ELSE /\ sp_model' = sp_model
                        /\ pc' = "train"
                        /\ current_vs' = DefaultVocabSize
    /\ UNCHANGED <<config, cancel_event, wn, docs, chunks, stats, result,
                   progress, previews, metrics, observer_threw, output_dir0,
                   datasets, imported, other_vars>>

\* one pass of the while loop of train_or_load_sp_model
TrainAttempt ==
    /\ pc = "train"
    /\ \E response \in TrainerResponses :
          LET inside == config.sentencepiece_model_path = None
              model == IF inside THEN "spm/spm.model" ELSE "tokdir/spm.model"
              next_vs == NextVocabSize(current_vs, response)
          IN  IF response.kind = "trained"
              THEN /\ output_dir' = IF inside
                                    THEN WriteFile(output_dir, model, "model")
                                    ELSE output_dir
                   /\ sp_dir' = IF inside THEN sp_dir
                                ELSE WriteFile(sp_dir, model, "model")
                   /\ sp_model' = model
                   /\ pc' = "tokenize_chunk"
                   /\ current_vs' = 0
              ELSE /\ current_vs' = next_vs
                   /\ pc' = IF next_vs < MinVocabSize THEN "raised" ELSE "train"
                   /\ UNCHANGED <<output_dir, sp_dir, sp_model>>
    /\ UNCHANGED <<config, cancel_event, wn, docs, chunks, stats, result,
                   progress, previews, metrics, observer_threw, output_dir0,
                   datasets, imported, called, other_vars>>

\* chunks = tokenize_and_chunk(docs, sp_model, chunk_size)
TokenizeChunk ==
    /\ pc = "tokenize_chunk"
    /\ chunks' = tokenize_and_chunk(docs, config.chunk_size)
    /\ called' = Append(called, "tokenize_and_chunk")
    /\ pc' = "tokenize_end"
    /\ UNCHANGED <<config, cancel_event, wn, docs, sp_model, stats, result, current_vs,
                   progress, previews, metrics, observer_threw, output_dir0, output_dir,
                   sp_dir, datasets, imported, other_vars>>

TokenizeEnd(throws) == ProgressStep("tokenize_end", "tokenize", 1, "tokenize_check", throws)

\* the boundary after Tokenize without its poll of the flag
BoundaryTokenizeUnchecked ==
    /\ pc = "tokenize_check"
    /\ pc' = "export_begin"
    /\ UNCHANGED <<config, cancel_event, wn, docs, chunks, sp_model, stats, result,
                   current_vs, progress, previews, metrics, observer_threw, output_dir0,
                   output_dir, sp_dir, datasets, imported, called, other_vars>>

BoundaryTokenize == BoundaryStep("tokenize_check", "export_begin")

ExportBegin(throws) == ProgressStep("export_begin", "export", 0, "export_work", throws)

\* stats = export_all(output_dir, docs, chunks, export_formats)
ExportWork ==
    /\ pc = "export_work"
    /\ \E parquet_ok \in BOOLEAN :
          LET out == export_all(output_dir, docs, chunks, config.export_formats,
                                TRUE, FALSE, parquet_ok)
          IN  /\ output_dir' = out.dir
              /\ stats' = out.stats
    /\ called' = Append(called, "export_all")
    /\ pc' = "export_end"
    /\ UNCHANGED <<config, cancel_event, wn, docs, chunks, sp_model, result, current_vs,
                   progress, previews, metrics, observer_threw, output_dir0,
                   sp_dir, datasets, imported, other_vars>>

ExportEnd(throws) == ProgressStep("export_end", "export", 1, "record", throws)

\* insert_dataset, had it written the token count in both count columns
insert_dataset_token_counts(name, num_documents, num_tokens, languages, dataset_hash, dir) ==
    Append(datasets, [name |-> name, num_documents |-> num_tokens,
                      num_tokens |-> num_tokens, languages |-> languages,
                      hash |-> dataset_hash, output_dir |-> dir])

\* insert_dataset(...): the row it inserts
insert_dataset(name, num_documents, num_tokens, languages, dataset_hash, dir) ==
    Append(datasets, [name |-> name, num_documents |-> num_documents,
                      num_tokens |-> num_tokens, languages |-> languages,
                      hash |-> dataset_hash, output_dir |-> dir])

\* the metadata record, and return True
RecordMetadata ==
    /\ pc = "record"
    /\ datasets' = insert_dataset(config.output_dir, stats.num_documents, stats.num_tokens,
                                  DOMAIN stats.language_distribution, stats.dataset_hash,
                                  config.output_dir)
    /\ called' = Append(called, "insert_dataset")
    /\ pc' = "returned"
    /\ result' = TRUE
    /\ UNCHANGED <<config, cancel_event, wn, docs, chunks, sp_model, stats, current_vs,
                   progress, previews, metrics, observer_threw, output_dir0, output_dir,
                   sp_dir, imported, other_vars>>

\* the steps of run() that call the observer, with the callbacks' behaviour
\* as a parameter
ObserverSteps(throws, throws2) ==
    \/ ImportBegin(throws)
    \/ ImportEnd(throws, throws2)
    \/ CleanBegin(throws)
    \/ CleanEnd(throws, throws2)
    \/ AugmentBegin(throws)
    \/ AugmentEnd(throws)
    \/ TokenizeBegin(throws)
    \/ TokenizeEnd(throws)
    \/ ExportBegin(throws)
    \/ ExportEnd(throws)

\* a step of run() that calls the observer, whose callbacks may throw
Observe ==
    \E throws \in BOOLEAN, throws2 \in BOOLEAN :
        /\ ObserverSteps(throws, throws2)
        /\ observer_threw' = (observer_threw \/ (config.on_progress # None /\ throws)
                                             \/ (config.on_preview # None /\ throws2
                                                 /\ previews' # previews))

\* ------------------------------------------------ the functions on their own
\* the variables of the cleaning stage, the deduplication and the manager
base_vars == <<lsh_collisions, dedup_vars, clean_vars, mgr_vars>>

ChunkIdle ==
    /\ tk_documents = <<>>
    /\ tk_chunk_size = 1
    /\ tk_chunks = <<>>
    /\ tk_idx = 0
    /\ tk_bounds = <<>>
    /\ tk_pc = "idle"

ExportIdle ==
    /\ ex_args = <<>>
    /\ ex_dir = EmptyDir
    /\ ex_stats = None
    /\ ex_pc = "idle"

WatermarkIdle ==
    /\ wm_text = <<>>
    /\ wm_hex = <<>>
    /\ wm_out = <<>>
    /\ wm_pc = "idle"

\* no attempt yet
NoResponse == [kind |-> "none", max |-> 0]

TrainIdle ==
    /\ tr_dir = EmptyDir
    /\ tr_vs = 0
    /\ tr_prev = 0
    /\ tr_last = NoResponse
    /\ tr_pc = "idle"

AugmentIdle ==
    /\ au_documents = <<>>
    /\ au_out = <<>>
    /\ au_pc = "idle"

FnIdle == ChunkIdle /\ ExportIdle /\ WatermarkIdle /\ TrainIdle /\ AugmentIdle

BaseIdle == lsh_collisions = {} /\ DedupIdle /\ CleanIdle /\ ManagerIdle

\* ------------------------------------------------------- tokenize_and_chunk
\* the texts and the lists of documents tokenize_and_chunk is given
ChunkTexts == SeqsUpTo({"w", "."}, MaxTokens)

ChunkInputs ==
    {[i \in 1..Len(ts) |-> Document(ts[i], None, None)] :
        ts \in SeqsUpTo(ChunkTexts, MaxChunkDocs)}

\* one pass of the loop over the documents (lines 65-70)
ChunkDocument ==
    /\ tk_pc = "loop"
    /\ tk_idx < Len(tk_documents)
    /\ LET ids == Encode(tk_documents[tk_idx + 1].text)
           after == tk_chunks \o Windows(ids, tk_chunk_size)
       IN  /\ tk_chunks' = after
           /\ tk_bounds' = Append(tk_bounds, Len(after))
    /\ tk_idx' = tk_idx + 1
    /\ UNCHANGED <<tk_documents, tk_chunk_size, tk_pc, base_vars, export_vars,
                   watermark_vars, train_vars, augment_vars>>

\* return chunks
ChunkReturn ==
    /\ tk_pc = "loop"
    /\ tk_idx = Len(tk_documents)
    /\ tk_pc' = "returned"
    /\ UNCHANGED <<tk_documents, tk_chunk_size, tk_chunks, tk_idx, tk_bounds, base_vars,
                   export_vars, watermark_vars, train_vars, augment_vars>>

InitChunk ==
    /\ tk_documents \in ChunkInputs
    /\ tk_chunk_size \in 1..MaxChunkSize
    /\ tk_chunks = <<>>
    /\ tk_idx = 0
    /\ tk_bounds = <<>>
    /\ tk_pc = "loop"
    /\ BaseIdle /\ ExportIdle /\ WatermarkIdle /\ TrainIdle /\ AugmentIdle

NextChunk ==
    \/ ChunkDocument
    \/ ChunkReturn

SpecChunk == InitChunk /\ [][NextChunk]_vars

\* --------------------------------------------------------------- export_all
\* the documents export_all is given: cleaned texts with or without a code
ExportDocuments ==
    SeqsUpTo({Document(t, l, None) : t \in {<<"w">>, <<"damn">>}, l \in {None, "en", "fr"}},
             MaxExportDocs)

\* the format lists: none, each format alone, and all four
ExportFormats ==
    {{}, {"jsonl"}, {"txt"}, {"csv"}, {"parquet"}, {"jsonl", "txt", "csv", "parquet"}}

\* the arguments of a call; the chunks are none or those of the documents
ExportArgs ==
    UNION {[documents : {ds},
            chunks : {<<>>, tokenize_and_chunk(ds, 2)},
            formats : ExportFormats,
            watermark_texts : BOOLEAN,
            ascii_safe_json : BOOLEAN,
            parquet_ok : BOOLEAN,
            output_dir : {EmptyDir, TrainedDir}] : ds \in ExportDocuments}

\* export_all with the arguments a
ExportOf(a) ==
    export_all(a.output_dir, a.documents, a.chunks, a.formats, a.watermark_texts,
               a.ascii_safe_json, a.parquet_ok)

\* a call of export_all
ExportCall ==
    /\ ex_pc = "call"
    /\ LET out == ExportOf(ex_args)
       IN  /\ ex_dir' = out.dir
           /\ ex_stats' = out.stats
    /\ ex_pc' = "done"
    /\ UNCHANGED <<ex_args, base_vars, chunk_vars, watermark_vars, train_vars, augment_vars>>

InitExport ==
    /\ ex_args \in ExportArgs
    /\ ex_dir = ex_args.output_dir
    /\ ex_stats = None
    /\ ex_pc = "call"
    /\ BaseIdle /\ ChunkIdle /\ WatermarkIdle /\ TrainIdle /\ AugmentIdle

NextExport == ExportCall

SpecExport == InitExport /\ [][NextExport]_vars

\* ---------------------------------------------------------- _watermark_text
\* the texts _watermark_text is given: the characters "w" and " " in turn,
\* from one character short of the bitstream's length on
WatermarkTexts ==
    {[i \in 1..n |-> IF i % 2 = 1 THEN c1 ELSE c2] :
        n \in (4 * WatermarkHexLen - 1)..(4 * WatermarkHexLen + MaxTail),
        c1 \in {"w", " "}, c2 \in {"w", " "}}

\* the prefixes of 16 hex digits it is given: a first digit and a step
WatermarkPrefixes ==
    {[i \in 1..WatermarkHexLen |-> (a + b * i) % 16] : a \in 0..15, b \in 0..MaxDigitStep}

\* a call of _watermark_text
WatermarkCall ==
    /\ wm_pc = "call"
    /\ wm_out' = _watermark_text(wm_text, wm_hex)
    /\ wm_pc' = "done"
    /\ UNCHANGED <<wm_text, wm_hex, base_vars, chunk_vars, export_vars, train_vars,
                   augment_vars>>

InitWatermark ==
    /\ wm_text \in WatermarkTexts
    /\ wm_hex \in WatermarkPrefixes
    /\ wm_out = <<>>
    /\ wm_pc = "call"
    /\ BaseIdle /\ ChunkIdle /\ ExportIdle /\ TrainIdle /\ AugmentIdle

NextWatermark == WatermarkCall

SpecWatermark == InitWatermark /\ [][NextWatermark]_vars

\* --------------------------------------------------- train_or_load_sp_model
\* the vocab_size arguments and the largest sizes a trainer reports
StartSizes == {500, 1000, 1249, 1250, 2000, 2500, DefaultVocabSize}
ReportedMaxima == {37, 1500, 8000}

\* lines 19-29: the directory is made; a model that is there is returned;
\* otherwise the input is written and current_vs is vocab_size
TrainBegin ==
    /\ tr_pc = "begin"
    /\ tr_dir' = PrepareTraining(tr_dir, "spm", <<<<"w">>>>)
    /\ tr_pc' = IF "spm/spm.model" \in DOMAIN tr_dir THEN "returned" ELSE "train"
    /\ UNCHANGED <<tr_vs, tr_prev, tr_last, base_vars, chunk_vars, export_vars,
                   watermark_vars, augment_vars>>

\* one pass of the while loop: an attempt and, when it is rejected, the
\* except branch
TrainLoop ==
    /\ tr_pc = "train"
    /\ \E response \in TrainerResponsesFor(ReportedMaxima) :
          LET next_vs == NextVocabSize(tr_vs, response)
          IN  /\ tr_last' = response
              /\ tr_prev' = tr_vs
              /\ IF response.kind = "trained"
                 THEN /\ tr_dir' = WriteFile(tr_dir, "spm/spm.model", "model")
                      /\ tr_vs' = tr_vs
                      /\ tr_pc' = "returned"
                 ELSE /\ tr_dir' = tr_dir
                      /\ tr_vs' = next_vs
                      /\ tr_pc' = IF next_vs < MinVocabSize THEN "raised" ELSE "train"
    /\ UNCHANGED <<base_vars, chunk_vars, export_vars, watermark_vars, augment_vars>>

InitTrain ==
    /\ tr_dir \in {EmptyDir, TrainedDir}
    /\ tr_vs \in StartSizes
    /\ tr_prev = 0
    /\ tr_last = NoResponse
    /\ tr_pc = "begin"
    /\ BaseIdle /\ ChunkIdle /\ ExportIdle /\ WatermarkIdle /\ AugmentIdle

NextTrain ==
    \/ TrainBegin
    \/ TrainLoop

SpecTrain == InitTrain /\ [][NextTrain]_vars

\* -------------------------------------------------------- augment_documents
\* the texts augment_documents is given: sentences joined by ". "
AugmentTexts ==
    {Join(ss, <<".", " ">>) :
        ss \in SeqsUpTo({<<"w">>, <<"damn">>, <<"w", " ", "damn">>}, MaxSentences) \ {<<>>}}

AugmentInputs ==
    {[i \in 1..Len(ts) |-> Document(ts[i], None, None)] :
        ts \in SeqsUpTo(AugmentTexts, MaxAugmentDocs)}

\* a call of augment_documents, with any outcome of the random source
AugmentCall ==
    /\ au_pc = "call"
    /\ \E out \in augment_documents(au_documents) : au_out' = out
    /\ au_pc' = "done"
    /\ UNCHANGED <<au_documents, base_vars, chunk_vars, export_vars, watermark_vars,
                   train_vars>>

InitAugment ==
    /\ au_documents \in AugmentInputs
    /\ wn \in BOOLEAN
    /\ au_out = <<>>
    /\ au_pc = "call"
    /\ lsh_collisions = {} /\ DedupIdle /\ CleanIdle /\ ManagerAtRest
    /\ ChunkIdle /\ ExportIdle /\ WatermarkIdle /\ TrainIdle

NextAugment == AugmentCall

SpecAugment == InitAugment /\ [][NextAugment]_vars

\* ----------------------------------------------------------- specifications
InitDedup ==
    /\ dd_documents \in DedupInputs
    /\ lsh_collisions \in Collisions(DedupTexts)
    /\ dd_minhashes = <<>>
    /\ dd_lsh = {}
    /\ dd_kept = <<>>
    /\ dd_i = 0
    /\ dd_pc = "sign"
    /\ CleanIdle
    /\ ManagerIdle
    /\ FnIdle

NextDedup ==
    \/ DedupSign
    \/ DedupQuery
    \/ DedupReturn

SpecDedup == InitDedup /\ [][NextDedup]_vars

InitClean ==
    /\ cl_documents \in CleanInputs
    /\ cl_config \in CleanConfigs
    /\ lsh_collisions = {}
    /\ cl_once = <<>>
    /\ cl_twice = <<>>
    /\ cl_pc = "input"
    /\ DedupIdle
    /\ ManagerIdle
    /\ FnIdle

NextClean ==
    \/ CleanOnce
    \/ CleanTwice

SpecClean == InitClean /\ [][NextClean]_vars

\* a PipelineManager is made for a configuration and run() is called
Init ==
    /\ config \in PipelineConfigs
    /\ wn \in (IF config.enable_augmentation THEN BOOLEAN ELSE {FALSE})
    /\ output_dir0 \in {EmptyDir, TrainedDir}
    /\ output_dir = output_dir0
    /\ sp_dir = EmptyDir
    /\ lsh_collisions = {}
    /\ cancel_event = FALSE
    /\ pc = "start"
    /\ docs = <<>>
    /\ chunks = <<>>
    /\ sp_model = None
    /\ stats = None
    /\ result = None
    /\ current_vs = 0
    /\ progress = <<>>
    /\ previews = <<>>
    /\ metrics = <<>>
    /\ observer_threw = FALSE
    /\ datasets = <<>>
    /\ imported = -1
    /\ called = <<>>
    /\ DedupIdle
    /\ CleanIdle
    /\ FnIdle

Next ==
    \/ Cancel
    \/ BoundaryStart
    \/ Observe
    \/ ImportWork
    \/ BoundaryImport
    \/ CleanWork
    \/ BoundaryClean
    \/ AugmentWork
    \/ BoundaryAugment
    \/ TokenizePrepare
    \/ TrainAttempt
    \/ TokenizeChunk
    \/ BoundaryTokenize
    \/ ExportWork
    \/ RecordMetadata

Spec == Init /\ [][Next]_vars

\* ================================================================== claims
IsPrefix(a, b) == Len(a) <= Len(b) /\ a = SubSeq(b, 1, Len(a))

\* the places of run() where it polls the flag, and the places inside a stage
Boundaries == {"start", "import_check", "clean_check", "augment_check", "tokenize_check"}

InStage ==
    {"import_begin", "import_work", "import_end", "clean_begin", "clean_work", "clean_end",
     "augment_begin", "augment_work", "augment_end", "tokenize_begin", "tokenize_prepare",
     "train", "tokenize_chunk", "tokenize_end"}

\* the stage whose work ends at a boundary
StageBefore(b) ==
    CASE b = "import_check" -> "import"
      [] b = "clean_check" -> "clean"
      [] b = "augment_check" -> "augment"
      [] b = "tokenize_check" -> "tokenize"

\* C1: a run that finds the flag set at a stage boundary returns False there,
\* starting no later stage and never calling export_all; a stage that is
\* running is not stopped by the flag, and has sent its completion event when
\* its boundary is reached.
CancelStopsAtBoundaries ==
    /\ [][/\ (pc \in Boundaries /\ cancel_event /\ pc' # pc)
              => (pc' = "returned" /\ result' = FALSE /\ called' = called
                  /\ output_dir' = output_dir /\ datasets' = datasets
                  /\ "export_all" \notin Range(called))
          /\ (pc \in InStage /\ cancel_event /\ pc' # pc)
              => (pc' \in InStage \cup Boundaries /\ result' = result)]_vars
    /\ [](pc \in Boundaries \ {"start"} /\ config.on_progress # None
            => progress[Len(progress)] = <<StageBefore(pc), 1>>)

\* C1 witness: the flag was set while Cleaning ran; the stage ended, sent its
\* completion event, and the run returned False at the boundary after it
CancelledAfterCleaning ==
    /\ pc = "returned"
    /\ cancel_event
    /\ result = FALSE
    /\ called = <<"import_documents", "clean_documents">>
    /\ config.on_progress # None
    /\ progress[Len(progress)] = <<"clean", 1>>

\* the run has passed its last poll of the flag
Committed ==
    \/ pc \in {"export_begin", "export_work", "export_end", "record"}
    \/ pc = "returned" /\ result = TRUE

\* C2, as claimed: no run that received a cancellation request returns True.
NoCancelledRunReturnsTrue == (pc = "returned" /\ cancel_event) => result = FALSE

\* C2, amended: a cancellation request made before the run polls the flag for
\* the last time (after Tokenize) keeps it from starting Export and from
\* returning True.
CancelBeforeLastCheckStopsRun ==
    [][(cancel_event /\ ~Committed) => ~Committed']_vars

\* C2 witness: the request came after Tokenize had started, and the run
\* returned False without exporting
CancelledBeforeExport ==
    /\ pc = "returned"
    /\ cancel_event
    /\ result = FALSE
    /\ "tokenize_and_chunk" \in Range(called)
    /\ "export_all" \notin Range(called)

\* the progress events of a whole run
ExpectedProgress ==
    <<<<"import", 0>>, <<"import", 1>>, <<"clean", 0>>, <<"clean", 1>>>>
    \o (IF config.enable_augmentation THEN <<<<"augment", 0>>, <<"augment", 1>>>> ELSE <<>>)
    \o <<<<"tokenize", 0>>, <<"tokenize", 1>>, <<"export", 0>>, <<"export", 1>>>>

\* C3: the progress events sent so far are a prefix of import 0 1, clean 0 1,
\* augment 0 1 (if augmentation is enabled), tokenize 0 1, export 0 1, and
\* every value is 0 or 1.
ProgressInOrder ==
    /\ IsPrefix(progress, ExpectedProgress)
    /\ \A i \in 1..Len(progress) : progress[i][2] \in 0..1

\* C3 witness: a run with augmentation has sent all ten events
AllProgressSent ==
    /\ config.enable_augmentation
    /\ Len(progress) = 10
    /\ pc = "returned"

\* C4: after an import of no documents the run starts no other stage, writes
\* nothing to the output directory, inserts no record and returns False.
EmptyImportFails ==
    imported = 0 =>
        /\ pc \in {"import_end", "import_check", "returned"}
        /\ called = <<"import_documents">>
        /\ output_dir = output_dir0
        /\ datasets = <<>>
        /\ (pc = "returned" => result = FALSE)

\* C4 witness: a run that was not cancelled has returned after an empty import
EmptyImportReturned == imported = 0 /\ pc = "returned" /\ ~cancel_event

\* C5: a step in which a callback throws is a step the run also takes when
\* no callback throws (the same next place, documents, files and result), and
\* no event is sent twice.
ObserverFailureIsolated ==
    /\ [][\A throws \in BOOLEAN, throws2 \in BOOLEAN :
             ObserverSteps(throws, throws2) => ObserverSteps(FALSE, FALSE)]_vars
    /\ [](/\ \A i, j \in 1..Len(progress) : progress[i] = progress[j] => i = j
          /\ \A i, j \in 1..Len(previews) : previews[i][1] = previews[j][1] => i = j)

\* C5 witness: a callback has thrown and the run has returned True
ReturnedTrueAfterThrow == observer_threw /\ pc = "returned" /\ result = TRUE

\* C6, as claimed: until export_all is called the output directory is as it
\* was when the run began.
NoWriteBeforeExport == "export_all" \notin Range(called) => output_dir = output_dir0

\* C7, as claimed: what run() returns for a cancelled run differs from what
\* it returns for a run that imported no documents.
CancelledDistinctFromFailed ==
    (pc = "returned" /\ cancel_event /\ "export_all" \notin Range(called))
        => result # NoDocsResult

\* C8, as claimed: a metrics event follows each finished stage: the raw count
\* after Import, the language distribution after Cleaning, the chunk count
\* after Tokenizing.
MetricsAfterEachStage ==
    /\ pc = "import_check"
        => \E i \in 1..Len(metrics) :
              metrics[i].stage = "import" /\ metrics[i].raw_count = Len(docs)
    /\ pc = "clean_check"
        => \E i \in 1..Len(metrics) : metrics[i].stage = "clean"
    /\ pc = "tokenize_check"
        => \E i \in 1..Len(metrics) :
              metrics[i].stage = "tokenize" /\ metrics[i].chunk_count = Len(chunks)

RECURSIVE FirstOccurrences(_, _)
\* the documents among the first n that match no document kept before them
FirstOccurrences(documents, n) ==
    IF n = 0 THEN {}
    ELSE LET before == FirstOccurrences(documents, n - 1)
         IN  IF \E j \in before : Collide(MinHash(documents[j].text), MinHash(documents[n].text))
             THEN before
             ELSE before \cup {n}

RECURSIVE Pick(_, _, _)
\* the documents at the places K, from place i on, in order
Pick(documents, K, i) ==
    IF i > Len(documents) THEN <<>>
    ELSE (IF i \in K THEN <<documents[i]>> ELSE <<>>) \o Pick(documents, K, i + 1)

TextsOf(documents) == [i \in 1..Len(documents) |-> documents[i].text]

\* C9: the documents deduplicate_documents keeps are, in input order, those
\* that match no document kept before them, and the index holds the
\* signatures of the kept documents only; so the first document is kept, and
\* with A' similar to A and B similar to neither, [A, A', B] gives [A, B] and
\* [A', A, B] gives [A', B].
DedupKeepsFirstOccurrences ==
    dd_pc \in {"query", "returned"} =>
        LET seen == dd_i - 1
            first == FirstOccurrences(dd_documents, seen)
            A == <<"w">>
            A2 == <<"damn">>
            B == <<"amp;">>
            similar == lsh_collisions = {{MinHash(A), MinHash(A2)}}
        IN  /\ dd_lsh = first
            /\ dd_kept = Pick(dd_documents, first, 1)
            /\ seen >= 1 => dd_kept[1] = dd_documents[1]
            /\ dd_pc = "returned" =>
                /\ dd_kept = deduplicate_documents(dd_documents)
                /\ (similar /\ TextsOf(dd_documents) = <<A, A2, B>>)
                      => TextsOf(dd_kept) = <<A, B>>
                /\ (similar /\ TextsOf(dd_documents) = <<A2, A, B>>)
                      => TextsOf(dd_kept) = <<A2, B>>

\* C9 witness: [A, A', B] with A' similar to A has been reduced to [A, B]
NearDuplicateDropped ==
    /\ dd_pc = "returned"
    /\ lsh_collisions = {{MinHash(<<"w">>), MinHash(<<"damn">>)}}
    /\ TextsOf(dd_documents) = <<<<"w">>, <<"damn">>, <<"amp;">>>>
    /\ TextsOf(dd_kept) = <<<<"w">>, <<"amp;">>>>

\* C10, as claimed: cleaning the output of the cleaning stage again, with the
\* same settings, gives the same texts in the same order.
CleaningIdempotent == cl_pc = "twice" => TextsOf(cl_twice) = TextsOf(cl_once)


\* the language classifier was loaded and the language gate is on
ClassifierLoaded ==
    /\ cl_config.fasttext_model_path # None
    /\ cl_config.fasttext
    /\ cl_config.enable_language_filter

\* C11, as claimed (for a cleaning whose classifier is loaded): with a
\* whitelist set, every document the cleaning stage returns has a detected
\* code, and the code is in the whitelist.
WhitelistDropsUndetected ==
    (cl_pc = "once" /\ ClassifierLoaded /\ cl_config.language_whitelist # {})
        => \A i \in 1..Len(cl_once) : cl_once[i].language \in cl_config.language_whitelist

\* C12: a returned document with a detected code has a code that is in the
\* whitelist, if one is set, and not in the blacklist, if one is set; with
\* whitelist {en} and blacklist {en} no document detected as en is returned;
\* and without deduplication every text whose code passes both lists is
\* returned.
WhitelistThenBlacklist ==
    cl_pc = "once" =>
        LET wl == cl_config.language_whitelist
            bl == cl_config.language_blacklist
            survivors == filtered_docs(cl_documents, cl_config)
        IN  /\ \A i \in 1..Len(cl_once) :
                  cl_once[i].language # None
                      => /\ (wl # {} => cl_once[i].language \in wl)
                         /\ (bl # {} => cl_once[i].language \notin bl)
            /\ (wl = {"en"} /\ bl = {"en"})
                  => \A i \in 1..Len(cl_once) : cl_once[i].language # "en"
            /\ (ClassifierLoaded /\ ~cl_config.enable_deduplication)
                  => \A j \in 1..Len(survivors) :
                        (/\ Predict(survivors[j]) # None
                         /\ (wl # {} => Predict(survivors[j]) \in wl)
                         /\ (bl # {} => Predict(survivors[j]) \notin bl))
                            => survivors[j] \in Range(TextsOf(cl_once))

\* C12 witness: with whitelist {en} and blacklist {en}, a text detected as en
\* went through the profanity filter and was dropped by the language gate
EnglishDroppedByBothLists ==
    /\ cl_pc = "once"
    /\ ClassifierLoaded
    /\ cl_config.language_whitelist = {"en"}
    /\ cl_config.language_blacklist = {"en"}
    /\ \E t \in Range(filtered_docs(cl_documents, cl_config)) : Predict(t) = "en"
    /\ \A i \in 1..Len(cl_once) : cl_once[i].language # "en"

\* C13: without a model path, or without the classifier library, the
\* language gate drops nothing: the stage returns the texts that passed the
\* profanity filter (deduplicated, if deduplication is on), each with no
\* language, whatever the whitelist and the blacklist.
AbsentClassifierPassesAll ==
    (cl_pc = "once" /\ (cl_config.fasttext_model_path = None \/ ~cl_config.fasttext))
        => LET survivors == filtered_docs(cl_documents, cl_config)
               unfiltered == [i \in 1..Len(survivors) |-> Document(survivors[i], None, None)]
           IN  cl_once = IF cl_config.enable_deduplication
                         THEN deduplicate_documents(unfiltered)
                         ELSE unfiltered

\* C13 witness: the library is missing, the whitelist is {en}, and a text the
\* classifier would have called fr was returned with no language
UnclassifiedTextKept ==
    /\ cl_pc = "once"
    /\ cl_config.fasttext_model_path # None
    /\ ~cl_config.fasttext
    /\ cl_config.enable_language_filter
    /\ cl_config.language_whitelist = {"en"}
    /\ \E i \in 1..Len(cl_once) :
          Predict(cl_once[i].text) = "fr" /\ cl_once[i].language = None


RECURSIVE ConcatTokens(_)
\* the tokens of a list of chunks, one after the other
ConcatTokens(cs) == IF cs = <<>> THEN <<>> ELSE Head(cs).tokens \o ConcatTokens(Tail(cs))

\* the chunks tokenize_and_chunk added while it was at document d
ChunksOf(d) ==
    SubSeq(tk_chunks, (IF d = 1 THEN 0 ELSE tk_bounds[d - 1]) + 1, tk_bounds[d])

\* C14: for every document done, the tokens of the chunks added for it, in
\* order, are the document's encoded tokens; each of those chunks but the
\* last holds chunk_size tokens, the last at most chunk_size, and none is
\* empty; the chunks of a document follow those of the documents before it;
\* and the list returned is the chunks of all documents, in document order.
ChunksRebuildDocuments ==
    tk_pc \in {"loop", "returned"} =>
        /\ \A d \in 1..tk_idx :
              LET cs == ChunksOf(d)
              IN  /\ ConcatTokens(cs) = Encode(tk_documents[d].text)
                  /\ \A k \in 1..Len(cs) :
                        /\ Len(cs[k].tokens) >= 1
                        /\ Len(cs[k].tokens) <= tk_chunk_size
                        /\ (k < Len(cs) => Len(cs[k].tokens) = tk_chunk_size)
                        /\ cs[k].text = Decode(cs[k].tokens)
                  /\ (d > 1 => tk_bounds[d - 1] <= tk_bounds[d])
        /\ Len(tk_bounds) = tk_idx
        /\ Len(tk_chunks) = (IF tk_idx = 0 THEN 0 ELSE tk_bounds[tk_idx])
        /\ (tk_pc = "returned"
              => /\ tk_idx = Len(tk_documents)
                 /\ tk_chunks = tokenize_and_chunk(tk_documents, tk_chunk_size))

\* C14 witness: two documents were chunked, the first into a full chunk and a
\* shorter last one, the second into chunks of its own
LastChunkShorter ==
    /\ tk_pc = "returned"
    /\ Len(tk_documents) = 2
    /\ Len(ChunksOf(1)) = 2
    /\ Len(ChunksOf(1)[2].tokens) < tk_chunk_size
    /\ Len(ChunksOf(2)) >= 1


\* the arguments that differ from a in one thing other than the texts
Variants(a) ==
    {[a EXCEPT !.formats = {"jsonl", "txt", "csv", "parquet"} \ a.formats],
     [a EXCEPT !.watermark_texts = ~a.watermark_texts],
     [a EXCEPT !.ascii_safe_json = ~a.ascii_safe_json],
     [a EXCEPT !.parquet_ok = ~a.parquet_ok],
     [a EXCEPT !.chunks = <<>>],
     [a EXCEPT !.output_dir = IF a.output_dir = EmptyDir THEN TrainedDir ELSE EmptyDir],
     [a EXCEPT !.documents = [i \in 1..Len(a.documents) |->
                                 Document(a.documents[i].text, None, None)]],
     [a EXCEPT !.documents = [i \in 1..Len(a.documents) |->
                                 Document(a.documents[i].text, "fr", None)]]}

\* C15: the hash export_all returns (and writes to the metadata summary) is
\* the digest of the texts, each followed by a newline, in order; an export
\* of the same texts with other formats, flags, languages, chunks or
\* directory returns the same hash.
HashOfTextsOnly ==
    ex_pc = "done" =>
        /\ ex_stats.dataset_hash = _compute_dataset_hash(TextsOf(ex_args.documents))
        /\ ex_dir["metadata.json"].dataset_hash = ex_stats.dataset_hash
        /\ \A b \in Variants(ex_args) :
              ExportOf(b).stats.dataset_hash = ex_stats.dataset_hash

\* C15 witness: two documents with languages were exported in all formats,
\* watermarked, and the hash is that of the same texts without languages
HashedWithLanguages ==
    /\ ex_pc = "done"
    /\ Len(ex_args.documents) = 2
    /\ ex_args.documents[1].language = "en"
    /\ ex_args.documents[2].language = "fr"
    /\ ex_args.formats = {"jsonl", "txt", "csv", "parquet"}
    /\ ex_args.watermark_texts
    /\ ex_stats.dataset_hash = _compute_dataset_hash(<<ex_args.documents[1].text,
                                                      ex_args.documents[2].text>>)

\* C20: export_all ends with the chunk dump and the metadata summary written
\* and returns the stats, for every format list; when parquet is asked for
\* and df.to_parquet raises, the CSV variant holds the rows instead, and the
\* formats asked for besides parquet are written as well.
ExportSurvivesParquetFailure ==
    ex_pc = "done" =>
        /\ {"chunks.jsonl", "metadata.json"} \subseteq DOMAIN ex_dir
        /\ ex_dir["chunks.jsonl"] = ex_args.chunks
        /\ ex_dir["metadata.json"] = ex_stats
        /\ ex_stats.num_documents = Len(ex_args.documents)
        /\ ex_stats.num_tokens = Len(ConcatTokens(ex_args.chunks))
        /\ ("parquet" \in ex_args.formats /\ ~ex_args.parquet_ok)
              => /\ "dataset.parquet.csv" \in DOMAIN ex_dir
                 /\ Len(ex_dir["dataset.parquet.csv"]) = Len(ex_args.documents)
        /\ \A f \in ex_args.formats \ {"parquet"} :
              \E name \in DOMAIN ex_dir : name = "dataset." \o f

\* C20 witness: all formats were asked for, df.to_parquet raised, and the
\* export ended with the CSV variant in place of the parquet file
ParquetFellBackToCsv ==
    /\ ex_pc = "done"
    /\ ex_args.formats = {"jsonl", "txt", "csv", "parquet"}
    /\ ~ex_args.parquet_ok
    /\ ex_args.documents # <<>>
    /\ "dataset.parquet.csv" \in DOMAIN ex_dir
    /\ "dataset.parquet" \notin DOMAIN ex_dir
    /\ "metadata.json" \in DOMAIN ex_dir


IsMarker(c) == c \in {ZERO_WIDTH_SPACE, ZERO_WIDTH_JOINER}

\* the markers of a watermarked text read as bits, in order
MarkerBits(out) ==
    LET markers == SelectSeq(out, IsMarker)
    IN  [i \in 1..Len(markers) |-> IF markers[i] = ZERO_WIDTH_SPACE THEN 0 ELSE 1]

\* the bits regrouped by four into hex digits
HexOf(bits) ==
    [k \in 1..(Len(bits) \div 4) |->
        8 * bits[4 * k - 3] + 4 * bits[4 * k - 2] + 2 * bits[4 * k - 1] + bits[4 * k]]

Rejected == tr_last.kind \in {"error", "too_high"}

\* C17, as claimed: after a rejected attempt train_or_load_sp_model either
\* retries at a smaller size, which is at least 1000, or has let the error
\* out; so no size is tried twice and the attempts end.
TrainingEndsBelowMinimum ==
    (tr_pc \in {"train", "raised"} /\ Rejected)
        => \/ tr_pc = "raised"
           \/ tr_vs < tr_prev /\ tr_vs >= MinVocabSize

\* C18, as claimed: after a rejected attempt at size tr_prev the next size is
\* max(1000, min(tr_prev - 1000, reported maximum)) when the trainer reports
\* a maximum, and floor(0.8 * tr_prev) when it reports none.
BackoffAsSpecified ==
    (tr_pc \in {"train", "raised"} /\ Rejected)
        => tr_vs = IF tr_last.kind = "too_high"
                   THEN Max(1000, Min(tr_prev - 1000, tr_last.max))
                   ELSE (8 * tr_prev) \div 10


\* C19, as claimed: without the lexical resource augment_documents returns
\* its input: as many documents, each with the text, the language and the
\* metadata it had, whatever the random source gives.
AugmentationNoOpWithoutWordnet ==
    (au_pc = "done" /\ ~wn) => au_out = au_documents


\* the texts of the dataset files in the output directory
WrittenTexts ==
    (IF "dataset.txt" \in DOMAIN output_dir THEN Range(output_dir["dataset.txt"]) ELSE {})
    \cup UNION {{output_dir[f][i].text : i \in 1..Len(output_dir[f])} :
                  f \in {"dataset.jsonl", "dataset.csv", "dataset.parquet",
                         "dataset.parquet.csv"} \cap DOMAIN output_dir}

\* C21, as claimed: after the Export stage of a run whose configuration has
\* the watermark flag off, every text in a dataset file is the characters of
\* a final document's text, with no zero-width marker among them.
NoWatermarkWhenFlagOff ==
    ("export_all" \in Range(called) /\ ~config.watermark_texts)
        => \A t \in WrittenTexts :
              /\ \A k \in 1..Len(t) : ~IsMarker(t[k])
              /\ \E i \in 1..Len(docs) : t = Chars(docs[i].text)

RECURSIVE BackoffSizes(_)
\* the sizes the backoff rule derives from the sizes S, S included
BackoffSizes(S) ==
    LET more == S \cup {NextVocabSize(v, r) :
                          v \in S, r \in {x \in TrainerResponses : x.kind # "trained"}}
    IN  IF more = S THEN S ELSE BackoffSizes(more)

\* C22, as claimed: a size requested from the trainer in a run is the
\* configuration's sentencepiece_vocab_size or a size the backoff rule
\* derives from it.
TrainingStartsAtConfiguredSize ==
    pc = "train" => current_vs \in BackoffSizes({config.sentencepiece_vocab_size})


\* C23, as claimed: on the way to a retry the size is smaller than the size
\* of the attempt that was just rejected, and it is not below 1000.
RetriesStrictlySmaller ==
    /\ (tr_pc = "train" /\ Rejected) => tr_vs < tr_prev
    /\ (tr_pc = "train" /\ Rejected) => tr_vs >= MinVocabSize


\* how many times run() has called the function named f
CallCount(f) == Cardinality({i \in 1..Len(called) : called[i] = f})

\* whether some call of f comes before some call of g
CalledBefore(f, g) ==
    \E i, j \in 1..Len(called) : i < j /\ called[i] = f /\ called[j] = g

\* C24: insert_dataset is called at most once in a run, never before
\* export_all has returned; a run that returned True called it exactly once,
\* after export_all, with the document count, the token count and the hash of
\* the stats export_all returned; a run that returned False never called it.
MetadataRecordedOnceAfterExport ==
    /\ CallCount("insert_dataset") = Len(datasets)
    /\ Len(datasets) <= 1
    /\ datasets # <<>> => CalledBefore("export_all", "insert_dataset")
    /\ (pc = "returned" /\ result = TRUE)
          => /\ Len(datasets) = 1
             /\ CallCount("export_all") = 1
             /\ datasets[1].num_documents = stats.num_documents
             /\ datasets[1].num_tokens = stats.num_tokens
             /\ datasets[1].hash = stats.dataset_hash
    /\ (pc = "returned" /\ result = FALSE) => datasets = <<>>

\* C24 witness: a run has returned True with the one record of a dataset
\* whose document count and token count differ.
MetadataRecordedWitness ==
    /\ pc = "returned"
    /\ result = TRUE
    /\ Len(datasets) = 1
    /\ datasets[1].num_documents > 0
    /\ datasets[1].num_documents # datasets[1].num_tokens

\* C25, as claimed: a run that returned True exported a dataset that is not
\* empty.
SuccessMeansNonEmptyExport ==
    (pc = "returned" /\ result = TRUE) => stats.num_documents > 0

\* C25, amended: a run that returned True has called export_all, whose
\* stats count the final documents; and when documents were imported and
\* Cleaning dropped them all, a run that returned either saw the cancellation
\* flag at a boundary and returned False, or went through Tokenize and Export
\* and returned True with a dataset of no documents.
EmptyCleaningStillExports ==
    /\ (pc = "returned" /\ result = TRUE)
          => /\ CallCount("export_all") = 1
             /\ stats.num_documents = Len(docs)
    /\ (pc = "returned" /\ imported > 0 /\ docs = <<>>
          /\ "clean_documents" \in Range(called))
          => IF result
             THEN /\ CalledBefore("clean_documents", "tokenize_and_chunk")
                  /\ CalledBefore("tokenize_and_chunk", "export_all")
                  /\ stats.num_documents = 0
                  /\ WrittenTexts = {}
             ELSE cancel_event

\* C25 witness: documents were imported, Cleaning dropped every one, the
\* tokenizer model was there to load, nobody cancelled, and the run returned
\* True with a dataset of no documents.
EmptyCleaningWitness ==
    /\ pc = "returned"
    /\ result = TRUE
    /\ imported > 0
    /\ docs = <<>>
    /\ ~cancel_event
    /\ config.sentencepiece_model_path = "tok.model"
    /\ stats.num_documents = 0
    /\ Len(datasets) = 1

=============================================================================
